---- MODULE Spec2Model ----
(***************************************************************************)
(* Tribeo backend: the credential subsystem (signup, login, onboarding,    *)
(* forgot/reset password) and the friend-request subsystem over the        *)
(* document store, modelled from the controllers, the models and the       *)
(* middleware quoted in COMPREHENSIVE_CODE_DOCUMENTATION.md.               *)
(*                                                                         *)
(* Strings that the code converts (emails) are sequences of characters, so *)
(* that toLowerCase/trim and the email pattern are computed.  A stored     *)
(* password is a record: alg = "bcrypt" for the output of bcrypt.hash and  *)
(* alg = "none" for a string stored as it was received.                    *)
(***************************************************************************)
EXTENDS Integers, Sequences, FiniteSets, TLC

(* ------------------------------ bounds --------------------------------- *)
MaxUsers    == 3      \* User documents the store may hold
MaxAccounts == 2      \* User documents under SpecAuth and SpecConc
MaxRequests == 2      \* FriendRequest documents the store may hold
MaxSalt     == 1      \* distinct outcomes of bcrypt.genSalt
MaxToken    == 2      \* reset tokens crypto.randomBytes(32) hands out
MaxAuthTokens == 1    \* reset tokens handed out under SpecAuth
MaxTime     == 10     \* the clock stops advancing here (minutes)
MaxProcs    == 2      \* request handlers in flight at once
MaxFriends  == 0      \* longest friends array a request body carries
MaxBodyFriends == 1   \* longest friends array an onboarding body carries under SpecProfile

(* ----------------------- constants of the program ---------------------- *)
MinPasswordLength == 6     \* signup: password.length < 6
ClientMinPasswordLength == 6   \* ResetPasswordPage: newPassword.length < 6
ResetTTL          == 10    \* forgotPassword: Date.now() + 10 * 60 * 1000
TickMinutes       == ResetTTL \div 2   \* granularity of the modelled clock

UserIds   == 1..MaxUsers
Salts     == 1..MaxSalt
Tokens    == 0..MaxToken     \* 0: a token string chosen by a client
Procs     == 1..MaxProcs

(* ------------------------------ strings -------------------------------- *)
EmptyStr == <<>>

IsSpace(c) == c = " "

toLowerCaseChar(c) ==
  CASE c = "A" -> "a"
    [] c = "B" -> "b"
    [] c = "X" -> "x"
    [] OTHER   -> c

toLowerCase(s) == [i \in 1..Len(s) |-> toLowerCaseChar(s[i])]

RECURSIVE trimStart(_)
trimStart(s) ==
  IF s # <<>> /\ IsSpace(Head(s)) THEN trimStart(Tail(s)) ELSE s

RECURSIVE trimEnd(_)
trimEnd(s) ==
  IF s # <<>> /\ IsSpace(s[Len(s)]) THEN trimEnd(SubSeq(s, 1, Len(s) - 1)) ELSE s

trim(s) == trimEnd(trimStart(s))

\* a normalization that keeps the capitals
trimOnly(email) == trim(email)

\* email.toLowerCase().trim()
normalizeEmail(email) == trim(toLowerCase(email))

\* [^\s@]+ : a non-empty run without whitespace and without "@"
IsPlainRun(s) == /\ Len(s) >= 1
                 /\ \A i \in 1..Len(s) : ~IsSpace(s[i]) /\ s[i] # "@"

\* /^[^\s@]+@[^\s@]+\.[^\s@]+$/
emailRegexTest(s) ==
  \E at \in 1..Len(s) :
    /\ s[at] = "@"
    /\ IsPlainRun(SubSeq(s, 1, at - 1))
    /\ \E dot \in (at + 1)..Len(s) :
         /\ s[dot] = "."
         /\ IsPlainRun(SubSeq(s, at + 1, dot - 1))
         /\ IsPlainRun(SubSeq(s, dot + 1, Len(s)))

(* ---------------------------- input values ----------------------------- *)
EmailA     == <<"a", "@", "x", ".", "c">>
EmailAVar  == <<" ", "A", "@", "X", ".", "c", " ">>
EmailB     == <<"b", "@", "x", ".", "c">>
EmailBad   == <<"a", "@", "x">>

EmailC     == <<"c", "@", "x", ".", "c">>
\* the address the n-th member signs up with, where only the friend API is exercised
MemberEmails == <<EmailA, EmailB, EmailC, <<"d", "@", "x", ".", "c">>, EmailA>>

RawEmails  == {EmailA, EmailAVar, EmailB, EmailBad, EmptyStr}
Passwords  == {"", "wrong", "secret1", "hunter22"}
SignupPasswords == {"", "wrong", "secret1"}
NewPasswords    == {"wrong", "hunter22"}
\* request bodies of POST /auth/signup: <<email, password, fullName>>
SignupRequests == (RawEmails \X SignupPasswords \X {"Ana"}) \cup {<<EmailA, "secret1", "">>}

(* ------------------------------ bcrypt --------------------------------- *)
\* a string stored in the password path as it was received
PlainText(p) == [alg |-> "none", salt |-> 0, text |-> p]

\* bcrypt.hash(password, salt)
bcryptHash(p, salt) == [alg |-> "bcrypt", salt |-> salt, text |-> p]

\* bcrypt.compare(enteredPassword, this.password): false when the stored
\* string is not a bcrypt hash
matchPassword(user, enteredPassword) ==
  /\ user.password.alg = "bcrypt"
  /\ user.password.text = enteredPassword

\* crypto.createHash("sha256").update(token).digest("hex")
sha256(t) == [sha |-> t]

NoToken   == [sha |-> -1]    \* passwordResetToken undefined
NoExpiry  == -1              \* passwordResetExpires undefined

(* ------------------------------- state --------------------------------- *)
VARIABLES
  users,        \* the users collection: users[id] is the document with _id = id
  requests,     \* the friendrequests collection, in creation order
  cookies,      \* user ids for which a signed jwt cookie has been issued
  now,          \* Date.now(), in minutes
  resp,         \* the last HTTP response sent
  tokensIssued, \* how many reset tokens crypto.randomBytes has produced
  tokenLog,     \* per reset token handed out: for whom, when, and what became of it
  registered,   \* per user: what the client gave to the signup that created it
  streamUsers,  \* ids of the users the Stream service has been given
  pc,           \* per handler in flight: the await it is suspended at
  loc,          \* per handler in flight: its local variables
  authUser,     \* browser: what useAuthUser() returns
  path,         \* browser: the location the router matches
  homePage,     \* browser: queries and state of HomePage
  forgotPage,   \* browser: state and mutation of ForgotPasswordPage
  resetPage     \* browser: state and mutation of ResetPasswordPage

\* the variables of the browser; the handlers of the server leave them alone
client == <<authUser, path, homePage, forgotPage, resetPage>>

vars == <<users, requests, cookies, now, resp, tokensIssued, tokenLog, registered,
          streamUsers, pc, loc, authUser, path, homePage, forgotPage, resetPage>>

SchemaPaths == {"fullName", "email", "password", "bio", "profilePic",
                "nativeLanguage", "learningLanguage", "location",
                "isOnboarded", "friends", "passwordResetToken",
                "passwordResetExpires"}

\* new User({email, fullName, password, profilePic}) with the schema defaults
NewUserDoc(email, fullName, password, profilePic) ==
  [fullName |-> fullName, email |-> email, password |-> password,
   bio |-> "", profilePic |-> profilePic, nativeLanguage |-> "",
   learningLanguage |-> "", location |-> "", isOnboarded |-> FALSE,
   friends |-> <<>>, passwordResetToken |-> NoToken,
   passwordResetExpires |-> NoExpiry]

\* userSchema.pre("save"): hash only when the password path was modified
preSave(doc, modified, salt) ==
  IF "password" \notin modified THEN doc
  ELSE [doc EXCEPT !.password = bcryptHash(doc.password.text, salt)]

Response(op, status, message) == [op |-> op, status |-> status, message |-> message]

NoLoc == [me |-> 0, target |-> 0]

Undefined == [undefined |-> TRUE]
Null      == [null |-> TRUE]

\* useQuery({queryKey: ["authUser"]}) before its first answer
AuthLoading == [isLoading |-> TRUE, authUser |-> Undefined]

\* HomePage when it mounts: recommendedUsers = [] by default, no outgoing
\* requests fetched yet, outgoingRequestsIds an empty Set
HomePageMounted ==
  [recommendedUsers |-> {}, outgoingFriendReqs |-> Undefined, outgoingRequestsIds |-> {}]

\* ForgotPasswordPage when it mounts: useState(""), the mutation idle
ForgotPageMounted == [email |-> EmptyStr, status |-> "idle"]

\* ResetPasswordPage when it mounts for /reset-password/:token: both inputs
\* empty, the mutation idle, no navigation scheduled
ResetPageMounted(token) ==
  [token |-> token, newPassword |-> "", confirmPassword |-> "", status |-> "idle",
   variables |-> Undefined, navigateTimer |-> FALSE]

Init ==
  /\ authUser = AuthLoading
  /\ path = "/"
  /\ homePage = HomePageMounted
  /\ forgotPage = ForgotPageMounted
  /\ resetPage = ResetPageMounted(0)
  /\ users = <<>>
  /\ requests = <<>>
  /\ cookies = {}
  /\ now = 0
  /\ resp = Response("none", 0, "")
  /\ tokensIssued = 0
  /\ tokenLog = <<>>
  /\ registered = <<>>
  /\ streamUsers = {}
  /\ pc = [p \in Procs |-> "idle"]
  /\ loc = [p \in Procs |-> NoLoc]

\* User.findOne({ email })
findOneByEmail(email) ==
  IF \E u \in 1..Len(users) : users[u].email = email
  THEN CHOOSE u \in 1..Len(users) :
         /\ users[u].email = email
         /\ \A v \in 1..Len(users) : users[v].email = email => u <= v
  ELSE 0

(* --------------------------- Stream service --------------------------- *)
\* upsertStreamUser: the call has its own try/catch, so it never throws;
\* upserted tells whether streamClient.upsertUsers went through
upsertStreamUser(userData, streamUp) ==
  [threw |-> FALSE, upserted |-> streamUp, id |-> userData.id]

\* a signup for which a user missing from Stream is an error
failOnMissingStreamUser(outcome) == [outcome EXCEPT !.threw = ~outcome.upserted]

\* try { await upsertStreamUser(...) } catch (error) { console.log(...) } in signup
tryUpsert(outcome) == [outcome EXCEPT !.threw = FALSE]

(* ------------------------------ signup --------------------------------- *)
signup(email, password, fullName, salt, streamUp) ==
  /\ LET e == normalizeEmail(email) IN
     IF email = EmptyStr \/ password = "" \/ fullName = ""
     THEN /\ resp' = Response("signup", 400, "All fields are required")
          /\ UNCHANGED <<users, cookies, registered, streamUsers>>
     ELSE IF Len(password) < MinPasswordLength
     THEN /\ resp' = Response("signup", 400, "Password must be at least 6 characters")
          /\ UNCHANGED <<users, cookies, registered, streamUsers>>
     ELSE IF ~emailRegexTest(e)
     THEN /\ resp' = Response("signup", 400, "Invalid email format")
          /\ UNCHANGED <<users, cookies, registered, streamUsers>>
     ELSE IF findOneByEmail(e) # 0
     THEN /\ resp' = Response("signup", 400, "Email already exists, please use a different one")
          /\ UNCHANGED <<users, cookies, registered, streamUsers>>
     ELSE LET id == Len(users) + 1
              st == tryUpsert(upsertStreamUser([id |-> id, name |-> fullName], streamUp))
          IN
          /\ users' = Append(users,
                        preSave(NewUserDoc(e, fullName, PlainText(password), "avatar"),
                                {"email", "fullName", "password", "profilePic"}, salt))
          /\ registered' = Append(registered,
                             [email |-> e, password |-> password, reset |-> FALSE])
          /\ streamUsers' = IF st.upserted THEN streamUsers \cup {id} ELSE streamUsers
          /\ IF st.threw
             THEN \* the handler's catch: the user is stored, no cookie is set
                  /\ resp' = Response("signup", 500, "Internal Server Error")
                  /\ UNCHANGED cookies
             ELSE /\ cookies' = cookies \cup {id}
                  /\ resp' = Response("signup", 201, "")
  /\ UNCHANGED <<requests, now, tokensIssued, tokenLog, pc, loc>>

(* ------------------------------- login --------------------------------- *)
\* a response that tells an unknown address from a wrong password
UserNotFound404 == Response("login", 404, "User not found")

\* if (!user) return res.status(401)...
UserNotFoundResponse  == Response("login", 401, "Invalid email or password")

\* if (!isPasswordCorrect) return res.status(401)...
WrongPasswordResponse == Response("login", 401, "Invalid email or password")

\* the response of login: the checks in the order the handler makes them
loginResponse(email, password) ==
  LET e == normalizeEmail(email)
      u == findOneByEmail(e) IN
  IF email = EmptyStr \/ password = ""
  THEN Response("login", 400, "All fields are required")
  ELSE IF u = 0 THEN UserNotFoundResponse
  ELSE IF ~matchPassword(users[u], password) THEN WrongPasswordResponse
  ELSE Response("login", 200, "")

login(email, password) ==
  /\ resp' = loginResponse(email, password)
  /\ cookies' = IF loginResponse(email, password).status = 200
                THEN cookies \cup {findOneByEmail(normalizeEmail(email))}
                ELSE cookies
  /\ UNCHANGED <<users, requests, now, tokensIssued, tokenLog, registered, streamUsers, pc, loc>>

(* --------------------------- protectRoute ------------------------------ *)
\* the jwt cookie verifies and User.findById(decoded.userId) finds the user
protectRoute(u) == u \in cookies /\ u \in 1..Len(users)

(* ----------------------------- onboarding ------------------------------ *)
BaseBody == [fullName |-> "Ana B", bio |-> "hi", nativeLanguage |-> "en",
             learningLanguage |-> "es", location |-> "Oslo"]

FriendLists == UNION {[1..n -> UserIds] : n \in 0..MaxFriends}

ProfileBodies ==
  {BaseBody,
   [fullName |-> "Ana B", bio |-> "", nativeLanguage |-> "en",
    learningLanguage |-> "es", location |-> "Oslo"],
   [fullName |-> "Ana B", bio |-> "hi", nativeLanguage |-> "en",
    learningLanguage |-> "es"],
   [isOnboarded |-> FALSE, role |-> "admin"] @@ BaseBody,
   [password |-> PlainText("hunter22")] @@ BaseBody,
   [email |-> EmailB] @@ BaseBody}

FriendBodies == {[friends |-> fs] @@ BaseBody : fs \in FriendLists}

\* a Date later than every expiry the server sets within MaxTime
FarFuture == MaxTime + ResetTTL + 1

\* onboarding bodies that carry the reset fields of the schema beside the profile
ResetBodies ==
  {BaseBody,
   [passwordResetExpires |-> FarFuture] @@ BaseBody,
   [passwordResetToken |-> sha256(1), passwordResetExpires |-> FarFuture] @@ BaseBody}

\* !field: the field is absent from the body or is the empty string
Missing(body, f) == f \notin DOMAIN body \/ body[f] = ""

\* the $set that findByIdAndUpdate derives from {...req.body, isOnboarded: true}:
\* paths outside the schema are dropped
onboardUpdate(body) ==
  LET upd == [isOnboarded |-> TRUE] @@ body
  IN  [f \in (DOMAIN upd) \cap SchemaPaths |-> upd[f]]

\* the unique index on email rejects the write
DuplicateEmail(u, upd) ==
  /\ "email" \in DOMAIN upd
  /\ \E v \in 1..Len(users) : v # u /\ users[v].email = upd.email

onboard(u, body) ==
  /\ protectRoute(u)
  /\ IF \E f \in {"fullName", "bio", "nativeLanguage", "learningLanguage", "location"} :
          Missing(body, f)
     THEN /\ resp' = Response("onboard", 400, "All fields are required")
          /\ UNCHANGED users
     ELSE IF DuplicateEmail(u, onboardUpdate(body))
     THEN /\ resp' = Response("onboard", 500, "Internal Server Error")
          /\ UNCHANGED users
     ELSE /\ users' = [users EXCEPT ![u] = onboardUpdate(body) @@ users[u]]
          /\ resp' = Response("onboard", 200, "")
  /\ UNCHANGED <<requests, cookies, now, tokensIssued, tokenLog, registered, streamUsers, pc, loc>>

(* --------------------------- forgotPassword ---------------------------- *)
\* user.passwordResetToken = hashedToken; user.passwordResetExpires = ...
issueToken(doc, hashedToken, expires) ==
  [doc EXCEPT !.passwordResetToken = hashedToken, !.passwordResetExpires = expires]

forgotPassword(email, mailSent) ==
  /\ LET e == normalizeEmail(email)
         u == findOneByEmail(e) IN
     IF u = 0
     THEN /\ resp' = Response("forgotPassword", 404, "User with this email does not exist")
          /\ UNCHANGED <<users, tokensIssued, tokenLog>>
     ELSE /\ tokensIssued' = tokensIssued + 1
          /\ tokenLog' = Append(tokenLog, [user |-> u, at |-> now, consumed |-> FALSE])
          /\ users' = [users EXCEPT ![u] =
                         preSave(issueToken(@, sha256(tokensIssued + 1), now + ResetTTL),
                                 {"passwordResetToken", "passwordResetExpires"}, 0)]
          /\ resp' = IF mailSent THEN Response("forgotPassword", 200, "")
                     ELSE Response("forgotPassword", 500, "Internal Server Error")
  /\ UNCHANGED <<requests, cookies, now, registered, streamUsers, pc, loc>>

(* ---------------------------- resetPassword ---------------------------- *)
\* User.findOne({passwordResetToken: hashedToken, passwordResetExpires: {$gt: Date.now()}})
findOneByResetToken(hashedToken) ==
  LET hit(u) == /\ users[u].passwordResetToken = hashedToken
                /\ users[u].passwordResetExpires > now
  IN  IF \E u \in 1..Len(users) : hit(u)
      THEN CHOOSE u \in 1..Len(users) : hit(u) /\ \A v \in 1..Len(users) : hit(v) => u <= v
      ELSE 0

\* a reset that changes the password and leaves the reset fields for a later write
applyResetKeepToken(doc, newPassword) == [doc EXCEPT !.password = PlainText(newPassword)]

\* user.password = newPassword; user.passwordResetToken = undefined;
\* user.passwordResetExpires = undefined
applyReset(doc, newPassword) ==
  [doc EXCEPT !.password = PlainText(newPassword),
              !.passwordResetToken = NoToken,
              !.passwordResetExpires = NoExpiry]

\* history kept beside the store: token t has been used for a reset
Consumed(log, t) ==
  IF t \in 1..Len(log) THEN [log EXCEPT ![t].consumed = TRUE] ELSE log

resetPassword(token, newPassword, salt) ==
  /\ LET u == findOneByResetToken(sha256(token)) IN
     IF u = 0
     THEN /\ resp' = Response("resetPassword", 400, "Invalid or expired password reset token")
          /\ UNCHANGED <<users, registered, tokenLog>>
     ELSE IF Len(newPassword) < MinPasswordLength
     THEN \* schema validation (required, minlength: 6) rejects the save
          /\ resp' = Response("resetPassword", 500, "Internal Server Error")
          /\ UNCHANGED <<users, registered, tokenLog>>
     ELSE /\ users' = [users EXCEPT ![u] =
                         preSave(applyReset(@, newPassword),
                                 {"password", "passwordResetToken", "passwordResetExpires"},
                                 salt)]
          /\ registered' = [registered EXCEPT ![u].reset = TRUE]
          /\ tokenLog' = Consumed(tokenLog, token)
          /\ resp' = Response("resetPassword", 200, "")
  /\ UNCHANGED <<requests, cookies, now, tokensIssued, streamUsers, pc, loc>>

Tick ==
  /\ now + TickMinutes <= MaxTime
  /\ now' = now + TickMinutes
  /\ UNCHANGED <<users, requests, cookies, resp, tokensIssued, tokenLog, registered, streamUsers, pc, loc>>

(* --------------------------- friend requests --------------------------- *)
\* recipient.friends.includes(myId)
includes(arr, x) == \E i \in 1..Len(arr) : arr[i] = x

\* $push in place of $addToSet
pushFriend(arr, x) == Append(arr, x)

\* $addToSet: { friends: x }
addToSet(arr, x) == IF includes(arr, x) THEN arr ELSE Append(arr, x)

\* a lookup that misses the request of the opposite direction
existingRequestOneWay(rs, myId, recipientId) ==
  \E i \in 1..Len(rs) : rs[i].sender = myId /\ rs[i].recipient = recipientId

\* FriendRequest.findOne({$or: [{sender: myId, recipient: recipientId},
\*                              {sender: recipientId, recipient: myId}]})
existingRequest(rs, myId, recipientId) ==
  \E i \in 1..Len(rs) :
    \/ rs[i].sender = myId /\ rs[i].recipient = recipientId
    \/ rs[i].sender = recipientId /\ rs[i].recipient = myId

\* a create behind a unique index on the pair
createRequestIfAbsent(rs, myId, recipientId) ==
  IF \E i \in 1..Len(rs) : {rs[i].sender, rs[i].recipient} = {myId, recipientId}
  THEN rs
  ELSE Append(rs, [sender |-> myId, recipient |-> recipientId, status |-> "pending"])

\* FriendRequest.create({sender: myId, recipient: recipientId})
createRequest(rs, myId, recipientId) ==
  Append(rs, [sender |-> myId, recipient |-> recipientId, status |-> "pending"])

\* a check that lets either party of the request through
notParty(doc, me) == doc.recipient # me /\ doc.sender # me

\* friendRequest.recipient.toString() !== req.user.id
notRecipient(doc, me) == doc.recipient # me

\* an accept that removes the request once it is handled
deleteAccepted(rs, id) == [i \in 1..(Len(rs) - 1) |-> IF i < id THEN rs[i] ELSE rs[i + 1]]

\* friendRequest.status = "accepted"; await friendRequest.save()
saveAccepted(rs, id) == [rs EXCEPT ![id].status = "accepted"]

\* one write that updates both friends arrays
addFriendBothWays(us, id, friend) ==
  [u \in 1..Len(us) |->
     IF u = id THEN [us[u] EXCEPT !.friends = addToSet(@, friend)]
     ELSE IF u = friend THEN [us[u] EXCEPT !.friends = addToSet(@, id)]
     ELSE us[u]]

\* User.findByIdAndUpdate(id, {$addToSet: {friends: friend}}); no document, no write
addFriend(us, id, friend) ==
  IF id \in 1..Len(us) THEN [us EXCEPT ![id].friends = addToSet(@, friend)] ELSE us

\* the recipient checks without the 404 for a missing recipient
recipientCheckNoLookup(us, myId, recipientId) ==
  IF recipientId \in 1..Len(us) /\ includes(us[recipientId].friends, myId)
  THEN Response("sendFriendRequest", 400, "You are already friends with this user")
  ELSE Response("sendFriendRequest", 0, "")

\* the checks of sendFriendRequest on the recipient document
recipientCheck(us, myId, recipientId) ==
  IF recipientId \notin 1..Len(us)
  THEN Response("sendFriendRequest", 404, "Recipient not found")
  ELSE IF includes(us[recipientId].friends, myId)
  THEN Response("sendFriendRequest", 400, "You are already friends with this user")
  ELSE Response("sendFriendRequest", 0, "")

SelfRequest   == Response("sendFriendRequest", 400, "You can't send friend request to yourself")
RequestExists == Response("sendFriendRequest", 400,
                          "A friend request already exists between you and this user")
RequestNotFound == Response("acceptFriendRequest", 404, "Friend request not found")
NotAuthorized   == Response("acceptFriendRequest", 403,
                            "You are not authorized to accept this request")

\* the whole handler, run with no other request in between
sendFriendRequest(myId, recipientId) ==
  /\ protectRoute(myId)
  /\ IF myId = recipientId
     THEN resp' = SelfRequest /\ UNCHANGED requests
     ELSE IF recipientCheck(users, myId, recipientId).status # 0
     THEN resp' = recipientCheck(users, myId, recipientId) /\ UNCHANGED requests
     ELSE IF existingRequest(requests, myId, recipientId)
     THEN resp' = RequestExists /\ UNCHANGED requests
     ELSE /\ requests' = createRequest(requests, myId, recipientId)
          /\ resp' = Response("sendFriendRequest", 201, "")
  /\ UNCHANGED <<users, cookies, now, tokensIssued, tokenLog, registered, streamUsers, pc, loc>>

acceptFriendRequest(me, requestId) ==
  /\ protectRoute(me)
  /\ IF requestId \notin 1..Len(requests)
     THEN resp' = RequestNotFound /\ UNCHANGED <<users, requests>>
     ELSE IF notRecipient(requests[requestId], me)
     THEN resp' = NotAuthorized /\ UNCHANGED <<users, requests>>
     ELSE /\ requests' = saveAccepted(requests, requestId)
          /\ users' = addFriend(addFriend(users, requests[requestId].sender,
                                          requests[requestId].recipient),
                                requests[requestId].recipient, requests[requestId].sender)
          /\ resp' = Response("acceptFriendRequest", 200, "")
  /\ UNCHANGED <<cookies, now, tokensIssued, tokenLog, registered, streamUsers, pc, loc>>

(* ------------------------------ the lists ------------------------------ *)
\* an outgoing list that keeps the requests that were accepted
getOutgoingAnyStatus(rs, me) == {i \in 1..Len(rs) : rs[i].sender = me}

\* getOutgoingFriendReqs: FriendRequest.find({sender: req.user.id, status: "pending"})
getOutgoingFriendReqs(rs, me) ==
  {i \in 1..Len(rs) : rs[i].sender = me /\ rs[i].status = "pending"}

\* getFriendRequests: the pending requests to the user, the accepted ones from the user
getFriendRequests(rs, me) ==
  [incomingReqs |-> {i \in 1..Len(rs) : rs[i].recipient = me /\ rs[i].status = "pending"},
   acceptedReqs |-> {i \in 1..Len(rs) : rs[i].sender = me /\ rs[i].status = "accepted"}]

\* a recommendation query without the $nin on the friends array
getRecommendedWithFriends(us, me) ==
  {v \in 1..Len(us) : v # me /\ us[v].isOnboarded = TRUE}

\* getRecommendedUsers: User.find({$and: [{_id: {$ne: currentUserId}},
\*   {_id: {$nin: currentUser.friends}}, {isOnboarded: true}]})
getRecommendedUsers(us, me) ==
  {v \in 1..Len(us) : /\ v # me
                       /\ ~includes(us[me].friends, v)
                       /\ us[v].isOnboarded = TRUE}

TargetIds  == 1..(MaxUsers + 1)       \* ids a client may put in the URL
RequestIds == 1..(MaxRequests + 1)

(* -------------------- the API, one request at a time ------------------- *)
Next ==
  \/ signup(MemberEmails[Len(users) + 1], "secret1", "Ana", 1, TRUE) /\ Len(users') <= MaxUsers /\ UNCHANGED client
  \/ \E u \in UserIds, b \in FriendBodies : onboard(u, b) /\ UNCHANGED client
  \/ \E u \in UserIds, t \in TargetIds :
       sendFriendRequest(u, t) /\ Len(requests') <= MaxRequests /\ UNCHANGED client
  \/ \E u \in UserIds, r \in RequestIds : acceptFriendRequest(u, r) /\ UNCHANGED client

Spec == Init /\ [][Next]_vars

(* ------------- the friend handlers, one await at a time --------------- *)
\* handler p is suspended at an await; every step below runs up to the next one
Respond(p, r) ==
  /\ resp' = r
  /\ pc' = [pc EXCEPT ![p] = "idle"]
  /\ loc' = [loc EXCEPT ![p] = NoLoc]

Goto(p, label) ==
  /\ pc' = [pc EXCEPT ![p] = label]
  /\ UNCHANGED <<resp, loc>>

\* sendFriendRequest up to `await User.findById(recipientId)`
SendBegin(p, myId, recipientId) ==
  /\ pc[p] = "idle"
  /\ protectRoute(myId)
  /\ IF myId = recipientId
     THEN Respond(p, SelfRequest)
     ELSE /\ pc' = [pc EXCEPT ![p] = "send_findRecipient"]
          /\ loc' = [loc EXCEPT ![p] = [me |-> myId, target |-> recipientId]]
          /\ UNCHANGED resp
  /\ UNCHANGED <<users, requests, cookies, now, tokensIssued, tokenLog, registered, streamUsers>>

\* ... up to `await FriendRequest.findOne(...)`
SendFindRecipient(p) ==
  /\ pc[p] = "send_findRecipient"
  /\ IF recipientCheck(users, loc[p].me, loc[p].target).status # 0
     THEN Respond(p, recipientCheck(users, loc[p].me, loc[p].target))
     ELSE Goto(p, "send_findExisting")
  /\ UNCHANGED <<users, requests, cookies, now, tokensIssued, tokenLog, registered, streamUsers>>

\* ... up to `await FriendRequest.create(...)`
SendFindExisting(p) ==
  /\ pc[p] = "send_findExisting"
  /\ IF existingRequest(requests, loc[p].me, loc[p].target)
     THEN Respond(p, RequestExists)
     ELSE Goto(p, "send_create")
  /\ UNCHANGED <<users, requests, cookies, now, tokensIssued, tokenLog, registered, streamUsers>>

\* the create and the 201 response
SendCreate(p) ==
  /\ pc[p] = "send_create"
  /\ requests' = createRequest(requests, loc[p].me, loc[p].target)
  /\ Respond(p, Response("sendFriendRequest", 201, ""))
  /\ UNCHANGED <<users, cookies, now, tokensIssued, tokenLog, registered, streamUsers>>

\* acceptFriendRequest up to `await FriendRequest.findById(requestId)`
AcceptBegin(p, me, requestId) ==
  /\ pc[p] = "idle"
  /\ protectRoute(me)
  /\ pc' = [pc EXCEPT ![p] = "accept_find"]
  /\ loc' = [loc EXCEPT ![p] = [me |-> me, target |-> requestId]]
  /\ UNCHANGED <<users, requests, cookies, now, resp, tokensIssued, tokenLog, registered, streamUsers>>

\* ... up to `await friendRequest.save()`
AcceptFind(p) ==
  /\ pc[p] = "accept_find"
  /\ IF loc[p].target \notin 1..Len(requests)
     THEN Respond(p, RequestNotFound)
     ELSE IF notRecipient(requests[loc[p].target], loc[p].me)
     THEN Respond(p, NotAuthorized)
     ELSE Goto(p, "accept_save")
  /\ UNCHANGED <<users, requests, cookies, now, tokensIssued, tokenLog, registered, streamUsers>>

\* the save of the status; up to the first findByIdAndUpdate
AcceptSave(p) ==
  /\ pc[p] = "accept_save"
  /\ requests' = saveAccepted(requests, loc[p].target)
  /\ Goto(p, "accept_addToSender")
  /\ UNCHANGED <<users, cookies, now, tokensIssued, tokenLog, registered, streamUsers>>

\* User.findByIdAndUpdate(friendRequest.sender, {$addToSet: {friends: recipient}})
AcceptAddToSender(p) ==
  /\ pc[p] = "accept_addToSender"
  /\ users' = addFriend(users, requests[loc[p].target].sender,
                        requests[loc[p].target].recipient)
  /\ Goto(p, "accept_addToRecipient")
  /\ UNCHANGED <<requests, cookies, now, tokensIssued, tokenLog, registered, streamUsers>>

\* User.findByIdAndUpdate(friendRequest.recipient, {$addToSet: {friends: sender}})
\* and the 200 response
AcceptAddToRecipient(p) ==
  /\ pc[p] = "accept_addToRecipient"
  /\ users' = addFriend(users, requests[loc[p].target].recipient,
                        requests[loc[p].target].sender)
  /\ Respond(p, Response("acceptFriendRequest", 200, ""))
  /\ UNCHANGED <<requests, cookies, now, tokensIssued, tokenLog, registered, streamUsers>>

\* the server process dies while handler p is suspended: no response, no rollback
Crash(p) ==
  /\ pc[p] # "idle"
  /\ pc' = [pc EXCEPT ![p] = "idle"]
  /\ loc' = [loc EXCEPT ![p] = NoLoc]
  /\ UNCHANGED <<users, requests, cookies, now, resp, tokensIssued, tokenLog, registered, streamUsers>>

NextConc ==
  \/ signup(MemberEmails[Len(users) + 1], "secret1", "Ana", 1, TRUE) /\ Len(users') <= MaxAccounts /\ UNCHANGED client
  \/ \E p \in Procs, u \in UserIds, t \in TargetIds : SendBegin(p, u, t) /\ UNCHANGED client
  \/ \E p \in Procs : SendFindRecipient(p) /\ UNCHANGED client
  \/ \E p \in Procs : SendFindExisting(p) /\ UNCHANGED client
  \/ \E p \in Procs : SendCreate(p) /\ Len(requests') <= MaxRequests /\ UNCHANGED client
  \/ \E p \in Procs, u \in UserIds, r \in RequestIds : AcceptBegin(p, u, r) /\ UNCHANGED client
  \/ \E p \in Procs : AcceptFind(p) /\ UNCHANGED client
  \/ \E p \in Procs : AcceptSave(p) /\ UNCHANGED client
  \/ \E p \in Procs : AcceptAddToSender(p) /\ UNCHANGED client
  \/ \E p \in Procs : AcceptAddToRecipient(p) /\ UNCHANGED client
  \/ \E p \in Procs : Crash(p) /\ UNCHANGED client

SpecConc == Init /\ [][NextConc]_vars

(* ------------------------- the credential API ------------------------- *)
NextAuth ==
  \/ \E rq \in SignupRequests, s \in Salts :
       signup(rq[1], rq[2], rq[3], s, TRUE) /\ Len(users') <= MaxAccounts /\ UNCHANGED client
  \/ \E e \in RawEmails, p \in Passwords : login(e, p) /\ UNCHANGED client
  \/ \E u \in UserIds, b \in ProfileBodies : onboard(u, b) /\ UNCHANGED client
  \/ \E e \in RawEmails, ok \in BOOLEAN :
       forgotPassword(e, ok) /\ tokensIssued' <= MaxAuthTokens /\ UNCHANGED client
  \/ \E t \in Tokens, p \in NewPasswords, s \in Salts : resetPassword(t, p, s) /\ UNCHANGED client
  \/ Tick /\ UNCHANGED client

SpecAuth == Init /\ [][NextAuth]_vars

(* ------------------------- the password reset flow --------------------- *)
NextReset ==
  \/ signup(MemberEmails[Len(users) + 1], "secret1", "Ana", 1, TRUE) /\ Len(users') <= MaxAccounts /\ UNCHANGED client
  \/ \E e \in {EmailA, EmailB}, p \in {"secret1", "hunter22"} : login(e, p) /\ UNCHANGED client
  \/ \E u \in UserIds, b \in ResetBodies : onboard(u, b) /\ UNCHANGED client
  \/ \E e \in {EmailA, EmailB, EmailC}, ok \in BOOLEAN :
       forgotPassword(e, ok) /\ tokensIssued' <= MaxToken /\ UNCHANGED client
  \/ \E t \in Tokens, p \in NewPasswords, s \in Salts : resetPassword(t, p, s) /\ UNCHANGED client
  \/ Tick /\ UNCHANGED client

SpecReset == Init /\ [][NextReset]_vars

(* ------------------------- session verification ----------------------- *)
JwtTTL == 10080     \* jwt.sign(..., {expiresIn: "7d"}): 7 * 24 * 60 minutes

NoCookie == [kind |-> "none"]     \* req.cookies.jwt is undefined

\* the jwt cookies a client may present: signed with JWT_SECRET or not, expiring
\* within the modelled time or long after it; a signed token for an id that is
\* not in the collection is the token of a user removed from the database since
SessionTokens ==
  {NoCookie} \cup
  {[kind |-> "jwt", userId |-> u, signedBy |-> k, exp |-> e] :
     u \in 1..(MaxAccounts + 1), k \in {"server", "other"}, e \in {TickMinutes, JwtTTL}}

\* jwt.decode in place of jwt.verify: the payload, unverified
jwtDecode(token) == [threw |-> FALSE, userId |-> token.userId]

\* jwt.verify(token, JWT_SECRET): returns the payload, throws on a bad
\* signature and on an expired token
jwtVerify(token) ==
  IF token.signedBy = "server" /\ token.exp > now
  THEN [threw |-> FALSE, userId |-> token.userId]
  ELSE [threw |-> TRUE, userId |-> 0]

\* the middleware on a presented cookie: the response it sends, or status 0
\* where it calls next()
protectRouteResponse(token) ==
  IF token = NoCookie
  THEN Response("protectRoute", 401, "Unauthorized - No token provided")
  ELSE IF jwtVerify(token).threw
  THEN \* the catch of the middleware
       Response("protectRoute", 500, "Internal Server Error")
  ELSE IF jwtVerify(token).userId \notin 1..Len(users)
  THEN Response("protectRoute", 401, "Unauthorized - User not found")
  ELSE Response("protectRoute", 0, "next")

\* GET /auth/me behind protectRoute
me(token) ==
  /\ resp' = IF protectRouteResponse(token).status # 0
             THEN protectRouteResponse(token)
             ELSE Response("me", 200, "")
  /\ UNCHANGED <<users, requests, cookies, now, tokensIssued, tokenLog, registered,
                 streamUsers, pc, loc>>

(* ---------------------------- Stream token ----------------------------- *)
\* generateStreamToken: the catch logs and the function returns undefined
generateStreamToken(userId, createTokenThrows) ==
  IF createTokenThrows THEN [threw |-> FALSE, value |-> Undefined]
  ELSE [threw |-> FALSE, value |-> [streamToken |-> userId]]

\* res.status(200).json({ token })
TokenResponse(token) ==
  [op |-> "getStreamToken", status |-> 200, message |-> "", token |-> token]

getStreamToken(u, createTokenThrows) ==
  /\ protectRoute(u)
  /\ resp' = IF generateStreamToken(u, createTokenThrows).threw
             THEN [op |-> "getStreamToken", status |-> 500,
                   message |-> "Internal Server Error", token |-> Undefined]
             ELSE TokenResponse(generateStreamToken(u, createTokenThrows).value)
  /\ UNCHANGED <<users, requests, cookies, now, tokensIssued, tokenLog, registered,
                 streamUsers, pc, loc>>

(* --------------------- sessions, signup and Stream --------------------- *)
NextSession ==
  \/ \E rq \in SignupRequests, s \in Salts, up \in BOOLEAN :
       signup(rq[1], rq[2], rq[3], s, up) /\ Len(users') <= MaxAccounts /\ UNCHANGED client
  \/ \E e \in RawEmails, p \in Passwords : login(e, p) /\ UNCHANGED client
  \/ \E t \in SessionTokens : me(t) /\ UNCHANGED client
  \/ \E u \in UserIds, f \in BOOLEAN : getStreamToken(u, f) /\ UNCHANGED client
  \/ Tick /\ UNCHANGED client

SpecSession == Init /\ [][NextSession]_vars

(* -------------------------- response bodies ---------------------------- *)
\* .select("-password"): the document without the excluded paths
select(doc, excluded) == [f \in (DOMAIN doc) \ excluded |-> doc[f]]

\* req.user = await User.findById(decoded.userId).select("-password")
reqUser(token) == select(users[jwtVerify(token).userId], {"password"})

\* res.status(201).json({ success: true, user: newUser })
signupBody(newUser) == [success |-> TRUE, user |-> newUser]

\* res.status(200).json({ success: true, user }) with user = User.findOne({ email })
loginBody(user) == [success |-> TRUE, user |-> user]

\* res.status(200).json({ success: true, user: req.user })
meBody(token) == [success |-> TRUE, user |-> reqUser(token)]

(* ------------------- onboarding beside the friend API ------------------ *)
\* friends arrays a client may put into the body of POST /auth/onboarding
BodyFriendLists == UNION {[1..n -> 1..MaxAccounts] : n \in 0..MaxBodyFriends}

\* bodies of POST /auth/onboarding: the profile alone, a profile with a field
\* empty or absent, and profiles beside further keys of the request body
OnboardBodies ==
  ProfileBodies \cup ResetBodies
    \cup {[friends |-> fs] @@ BaseBody : fs \in BodyFriendLists}

NextProfile ==
  \/ signup(MemberEmails[Len(users) + 1], "secret1", "Ana", 1, TRUE) /\ Len(users') <= MaxAccounts /\ UNCHANGED client
  \/ \E u \in UserIds, b \in OnboardBodies : onboard(u, b) /\ UNCHANGED client
  \/ \E u \in UserIds, t \in TargetIds :
       sendFriendRequest(u, t) /\ Len(requests') <= MaxRequests /\ UNCHANGED client
  \/ \E u \in UserIds, r \in RequestIds : acceptFriendRequest(u, r) /\ UNCHANGED client

SpecProfile == Init /\ [][NextProfile]_vars

(* ------------------------- the protected routes ----------------------- *)
\* the middleware called next(): the handler of the route runs
nextCalled(token) == protectRouteResponse(token).status = 0

\* req.user.id in the handlers behind the middleware
reqUserId(token) == jwtVerify(token).userId

\* the middleware answered and the handler of the route did not run
Rejected(token) ==
  /\ resp' = protectRouteResponse(token)
  /\ UNCHANGED <<users, requests, cookies, now, tokensIssued, tokenLog, registered,
                 streamUsers, pc, loc>>

\* router.post("/onboarding", protectRoute, onboard)
postOnboarding(token, body) ==
  IF nextCalled(token) THEN onboard(reqUserId(token), body) ELSE Rejected(token)

\* router.use(protectRoute); router.post("/friend-request/:id", sendFriendRequest)
postFriendRequest(token, id) ==
  IF nextCalled(token) THEN sendFriendRequest(reqUserId(token), id) ELSE Rejected(token)

\* router.use(protectRoute); router.put("/friend-request/:id/accept", acceptFriendRequest)
putFriendRequestAccept(token, id) ==
  IF nextCalled(token) THEN acceptFriendRequest(reqUserId(token), id) ELSE Rejected(token)

\* router.get("/token", protectRoute, getStreamToken)
getChatToken(token, createTokenThrows) ==
  IF nextCalled(token) THEN getStreamToken(reqUserId(token), createTokenThrows)
  ELSE Rejected(token)

\* the GET handlers behind router.use(protectRoute)
UserListHandlers ==
  {"getRecommendedUsers", "getMyFriends", "getFriendRequests", "getOutgoingFriendReqs"}

\* router.get("/", ...), router.get("/friends", ...), router.get("/friend-requests", ...),
\* router.get("/outgoing-friend-requests", ...): the handlers read and answer 200
getUsersRoute(token, handler) ==
  IF nextCalled(token)
  THEN /\ resp' = Response(handler, 200, "")
       /\ UNCHANGED <<users, requests, cookies, now, tokensIssued, tokenLog, registered,
                      streamUsers, pc, loc>>
  ELSE Rejected(token)

\* the cookies presented under SpecRoutes: none, the server's cookie of each
\* stored user and of a user that is not stored, a cookie for user 1 signed
\* with another secret, and a cookie of user 1 that expires within the run
RouteTokens ==
  {NoCookie}
    \cup {[kind |-> "jwt", userId |-> u, signedBy |-> "server", exp |-> JwtTTL] :
            u \in 1..(MaxAccounts + 1)}
    \cup {[kind |-> "jwt", userId |-> 1, signedBy |-> "other", exp |-> JwtTTL],
          [kind |-> "jwt", userId |-> 1, signedBy |-> "server", exp |-> TickMinutes]}

\* bodies of POST /auth/onboarding under SpecRoutes
RouteBodies == {[friends |-> fs] @@ BaseBody : fs \in BodyFriendLists}

NextRoutes ==
  \/ signup(MemberEmails[Len(users) + 1], "secret1", "Ana", 1, TRUE) /\ Len(users') <= MaxAccounts /\ UNCHANGED client
  \/ \E t \in RouteTokens, b \in RouteBodies : postOnboarding(t, b) /\ UNCHANGED client
  \/ \E t \in RouteTokens : me(t) /\ UNCHANGED client
  \/ \E t \in RouteTokens, id \in TargetIds :
       postFriendRequest(t, id) /\ Len(requests') <= MaxRequests /\ UNCHANGED client
  \/ \E t \in RouteTokens, id \in RequestIds : putFriendRequestAccept(t, id) /\ UNCHANGED client
  \/ \E t \in RouteTokens, h \in UserListHandlers : getUsersRoute(t, h) /\ UNCHANGED client
  \/ \E t \in RouteTokens, f \in BOOLEAN : getChatToken(t, f) /\ UNCHANGED client
  \/ Tick /\ UNCHANGED client

SpecRoutes == Init /\ [][NextRoutes]_vars

(* ======================================================================= *)
(*                              the browser                                *)
(* ======================================================================= *)
\* what a <Route> element renders: a page, or <Navigate to=...>
Show(page)     == [show |-> page, navigate |-> ""]
NavigateTo(to) == [show |-> "", navigate |-> to]

\* the routes of App as the documentation quotes them; the elements of the
\* other routes (/login, /onboarding, ...) are not quoted
AppPaths == {"/", "/signup", "/call/:id"}

\* a home route that asks for authentication only
AppOnboardingUnchecked(location, auth) ==
  IF auth.isLoading THEN Show("PageLoader")
  ELSE LET isAuthenticated == auth.authUser # Undefined
           isOnboarded == isAuthenticated /\ auth.authUser.isOnboarded
       IN  IF location = "/"
           THEN IF isAuthenticated THEN Show("HomePage") ELSE NavigateTo("/login")
           ELSE IF location = "/signup"
           THEN IF ~isAuthenticated THEN Show("SignUpPage")
                ELSE NavigateTo(IF isOnboarded THEN "/" ELSE "/onboarding")
           ELSE IF location = "/call/:id"
           THEN IF isAuthenticated /\ isOnboarded THEN Show("CallPage")
                ELSE NavigateTo(IF ~isAuthenticated THEN "/login" ELSE "/onboarding")
           ELSE Show("other")

\* App: isAuthenticated = Boolean(authUser), isOnboarded = authUser?.isOnboarded,
\* the loader while the query is loading, then the element of the matching route
App(location, auth) ==
  IF auth.isLoading THEN Show("PageLoader")
  ELSE LET isAuthenticated == auth.authUser # Undefined
           isOnboarded == isAuthenticated /\ auth.authUser.isOnboarded
       IN  IF location = "/"
           THEN IF isAuthenticated /\ isOnboarded THEN Show("HomePage")
                ELSE NavigateTo(IF ~isAuthenticated THEN "/login" ELSE "/onboarding")
           ELSE IF location = "/signup"
           THEN IF ~isAuthenticated THEN Show("SignUpPage")
                ELSE NavigateTo(IF isOnboarded THEN "/" ELSE "/onboarding")
           ELSE IF location = "/call/:id"
           THEN IF isAuthenticated /\ isOnboarded THEN Show("CallPage")
                ELSE NavigateTo(IF ~isAuthenticated THEN "/login" ELSE "/onboarding")
           ELSE Show("other")

\* getAuthUser: res.data of GET /auth/me, null when the request fails
getAuthUser(token) ==
  IF nextCalled(token)
  THEN [success |-> TRUE, user |-> [_id |-> reqUserId(token)] @@ meBody(token).user]
  ELSE Null

\* useAuthUser: {isLoading, authUser: authUser.data?.user} once the query answered
useAuthUser(data) ==
  [isLoading |-> FALSE, authUser |-> IF data = Null THEN Undefined ELSE data.user]

\* the browser loads a URL: the app starts over, the authUser query is loading
LoadPage(location) ==
  /\ path' = location
  /\ authUser' = AuthLoading
  /\ homePage' = HomePageMounted
  /\ forgotPage' = ForgotPageMounted
  /\ resetPage' = ResetPageMounted(0)
  /\ UNCHANGED <<users, requests, cookies, now, resp, tokensIssued, tokenLog, registered,
                 streamUsers, pc, loc>>

\* the authUser query answers: GET /auth/me with the cookie of the browser
FetchAuthUser(token) ==
  /\ authUser.isLoading
  /\ me(token)
  /\ authUser' = useAuthUser(getAuthUser(token))
  /\ UNCHANGED <<path, homePage, forgotPage, resetPage>>

\* <Navigate to=...> rendered by the matching route
Redirect ==
  /\ App(path, authUser).navigate # ""
  /\ path' = App(path, authUser).navigate
  /\ UNCHANGED <<authUser, homePage, forgotPage, resetPage>>
  /\ UNCHANGED <<users, requests, cookies, now, resp, tokensIssued, tokenLog, registered,
                 streamUsers, pc, loc>>

(* ------------------------------- HomePage ------------------------------ *)
\* the data of GET /users/outgoing-friend-requests: the pending requests of
\* the user, each by its req.recipient._id
outgoingRecipients(rs, userId) ==
  [recipients |-> {rs[i].recipient : i \in getOutgoingFriendReqs(rs, userId)}]

\* the effect on [outgoingFriendReqs]: the Set is rebuilt and stored when the
\* list is there and not empty
useEffectOutgoing(page) ==
  IF page.outgoingFriendReqs # Undefined
     /\ Cardinality(page.outgoingFriendReqs.recipients) > 0
  THEN [page EXCEPT !.outgoingRequestsIds = page.outgoingFriendReqs.recipients]
  ELSE page

\* const hasRequestBeenSent = outgoingRequestsIds.has(user._id)
hasRequestBeenSent(page, userId) == userId \in page.outgoingRequestsIds

\* the ["users"] query answers
FetchRecommendedUsers ==
  /\ App(path, authUser).show = "HomePage"
  /\ homePage' = [homePage EXCEPT
                    !.recommendedUsers = getRecommendedUsers(users, authUser.authUser._id)]
  /\ UNCHANGED <<authUser, path, forgotPage, resetPage>>
  /\ UNCHANGED <<users, requests, cookies, now, resp, tokensIssued, tokenLog, registered,
                 streamUsers, pc, loc>>

\* the ["outgoingFriendReqs"] query answers and the effect runs
FetchOutgoingFriendReqs ==
  /\ App(path, authUser).show = "HomePage"
  /\ homePage' = useEffectOutgoing(
                    [homePage EXCEPT !.outgoingFriendReqs =
                                        outgoingRecipients(requests, authUser.authUser._id)])
  /\ UNCHANGED <<authUser, path, forgotPage, resetPage>>
  /\ UNCHANGED <<users, requests, cookies, now, resp, tokensIssued, tokenLog, registered,
                 streamUsers, pc, loc>>

\* a click on the button of a recommended user: sendRequestMutation(user._id),
\* and on success the outgoing requests are invalidated and fetched again
SendRequestClick(userId) ==
  /\ App(path, authUser).show = "HomePage"
  /\ userId \in homePage.recommendedUsers
  /\ ~hasRequestBeenSent(homePage, userId)
  /\ sendFriendRequest(authUser.authUser._id, userId)
  /\ homePage' = IF resp'.status = 201
                 THEN useEffectOutgoing(
                        [homePage EXCEPT !.outgoingFriendReqs =
                                            outgoingRecipients(requests', authUser.authUser._id)])
                 ELSE homePage
  /\ UNCHANGED <<authUser, path, forgotPage, resetPage>>

\* the browser on the routes of App, beside the requests of the other users
NextHome ==
  \/ signup(MemberEmails[Len(users) + 1], "secret1", "Ana", 1, TRUE) /\ Len(users') <= MaxAccounts /\ UNCHANGED client
  \/ \E u \in UserIds : onboard(u, BaseBody) /\ UNCHANGED client
  \/ \E u \in UserIds, t \in TargetIds :
       sendFriendRequest(u, t) /\ Len(requests') <= MaxRequests /\ UNCHANGED client
  \/ \E u \in UserIds, r \in RequestIds : acceptFriendRequest(u, r) /\ UNCHANGED client
  \/ \E l \in AppPaths : LoadPage(l)
  \/ \E t \in RouteTokens : FetchAuthUser(t)
  \/ Redirect
  \/ FetchRecommendedUsers
  \/ FetchOutgoingFriendReqs
  \/ \E v \in UserIds : SendRequestClick(v) /\ Len(requests') <= MaxRequests

SpecHome == Init /\ [][NextHome]_vars

(* -------------------------- ForgotPasswordPage ------------------------- *)
ForgotPath == "/forgot-password"
ResetPath  == "/reset-password/:token"

\* !isSuccess: the form is rendered, otherwise the "Email Sent!" view
ForgotFormShown == path = ForgotPath /\ forgotPage.status # "success"

\* onChange={(e) => setEmail(e.target.value)}
ForgotSetEmail(email) ==
  /\ ForgotFormShown
  /\ forgotPage' = [forgotPage EXCEPT !.email = email]
  /\ UNCHANGED <<authUser, path, homePage, resetPage>>
  /\ UNCHANGED <<users, requests, cookies, now, resp, tokensIssued, tokenLog, registered,
                 streamUsers, pc, loc>>

\* handleSubmit: forgotPasswordMutation(email); the input is required and the
\* button is disabled while the mutation is pending
ForgotSubmit ==
  /\ ForgotFormShown
  /\ forgotPage.status # "pending"
  /\ forgotPage.email # EmptyStr
  /\ forgotPage' = [forgotPage EXCEPT !.status = "pending"]
  /\ UNCHANGED <<authUser, path, homePage, resetPage>>
  /\ UNCHANGED <<users, requests, cookies, now, resp, tokensIssued, tokenLog, registered,
                 streamUsers, pc, loc>>

\* POST /auth/forgot-password answers: isSuccess on 200, the error toast otherwise
ForgotSettle(mailSent) ==
  /\ path = ForgotPath
  /\ forgotPage.status = "pending"
  /\ forgotPassword(forgotPage.email, mailSent)
  /\ forgotPage' = [forgotPage EXCEPT
                      !.status = IF resp'.status = 200 THEN "success" ELSE "error"]
  /\ UNCHANGED <<authUser, path, homePage, resetPage>>

\* the "Try Again" button of the "Email Sent!" view: onClick={() => setEmail("")}
TryAgain ==
  /\ path = ForgotPath
  /\ forgotPage.status = "success"
  /\ forgotPage' = [forgotPage EXCEPT !.email = EmptyStr]
  /\ UNCHANGED <<authUser, path, homePage, resetPage>>
  /\ UNCHANGED <<users, requests, cookies, now, resp, tokensIssued, tokenLog, registered,
                 streamUsers, pc, loc>>

(* --------------------------- ResetPasswordPage ------------------------- *)
\* the browser opens the link of the mail: /reset-password/<token>
LoadResetPage(token) ==
  /\ path' = ResetPath
  /\ authUser' = AuthLoading
  /\ homePage' = HomePageMounted
  /\ forgotPage' = ForgotPageMounted
  /\ resetPage' = ResetPageMounted(token)
  /\ UNCHANGED <<users, requests, cookies, now, resp, tokensIssued, tokenLog, registered,
                 streamUsers, pc, loc>>

\* !isSuccess: the form is rendered
ResetFormShown == path = ResetPath /\ resetPage.status # "success"

\* the two inputs: setNewPassword, setConfirmPassword
ResetSetPasswords(newPassword, confirmPassword) ==
  /\ ResetFormShown
  /\ resetPage' = [resetPage EXCEPT !.newPassword = newPassword,
                                    !.confirmPassword = confirmPassword]
  /\ UNCHANGED <<authUser, path, homePage, forgotPage>>
  /\ UNCHANGED <<users, requests, cookies, now, resp, tokensIssued, tokenLog, registered,
                 streamUsers, pc, loc>>

\* a submit handler that does not look at the length
handleSubmitAnyLength(page) ==
  IF page.newPassword # page.confirmPassword THEN page
  ELSE [page EXCEPT !.status = "pending",
                    !.variables = [token |-> page.token, newPassword |-> page.newPassword]]

\* handleSubmit: return on a mismatch, return on a short password, otherwise
\* resetPasswordMutation({ token, newPassword })
handleSubmit(page) ==
  IF page.newPassword # page.confirmPassword THEN page
  ELSE IF Len(page.newPassword) < ClientMinPasswordLength THEN page
  ELSE [page EXCEPT !.status = "pending",
                    !.variables = [token |-> page.token, newPassword |-> page.newPassword]]

\* the form is submitted
ResetSubmit ==
  /\ ResetFormShown
  /\ resetPage.status # "pending"
  /\ resetPage' = handleSubmit(resetPage)
  /\ UNCHANGED <<authUser, path, homePage, forgotPage>>
  /\ UNCHANGED <<users, requests, cookies, now, resp, tokensIssued, tokenLog, registered,
                 streamUsers, pc, loc>>

\* POST /auth/reset-password/:token answers: onSuccess schedules
\* navigate("/login"), onError shows the toast
ResetSettle(salt) ==
  /\ path = ResetPath
  /\ resetPage.status = "pending"
  /\ resetPassword(resetPage.variables.token, resetPage.variables.newPassword, salt)
  /\ resetPage' = IF resp'.status = 200
                  THEN [resetPage EXCEPT !.status = "success", !.navigateTimer = TRUE]
                  ELSE [resetPage EXCEPT !.status = "error"]
  /\ UNCHANGED <<authUser, path, homePage, forgotPage>>

\* setTimeout(() => navigate("/login"), 2000) fires
NavigateTimerFires ==
  /\ resetPage.navigateTimer
  /\ path' = "/login"
  /\ resetPage' = [resetPage EXCEPT !.navigateTimer = FALSE]
  /\ UNCHANGED <<authUser, homePage, forgotPage>>
  /\ UNCHANGED <<users, requests, cookies, now, resp, tokensIssued, tokenLog, registered,
                 streamUsers, pc, loc>>

\* the two recovery pages of the browser in front of the server
NextRecovery ==
  \/ signup(MemberEmails[Len(users) + 1], "secret1", "Ana", 1, TRUE) /\ Len(users') <= MaxAccounts /\ UNCHANGED client
  \/ LoadPage(ForgotPath)
  \/ \E e \in {EmailA, EmailC} : ForgotSetEmail(e)
  \/ ForgotSubmit
  \/ \E ok \in BOOLEAN : ForgotSettle(ok) /\ tokensIssued' <= MaxAuthTokens
  \/ TryAgain
  \/ \E t \in Tokens : LoadResetPage(t)
  \/ \E np \in NewPasswords, cp \in NewPasswords : ResetSetPasswords(np, cp)
  \/ ResetSubmit
  \/ \E s \in Salts : ResetSettle(s)
  \/ NavigateTimerFires
  \/ Tick /\ UNCHANGED client

SpecRecovery == Init /\ [][NextRecovery]_vars

(* ======================================================================= *)
(*                               properties                                *)
(* ======================================================================= *)
SamePair(r1, r2) == {r1.sender, r1.recipient} = {r2.sender, r2.recipient}

Friends(a, b) == a \in 1..Len(users) /\ includes(users[a].friends, b)

\* C1: with every sendFriendRequest run as one indivisible step, no two
\* FriendRequest documents are ever between the same unordered pair of users.
AtMostOneRequestPerPair ==
  \A i, j \in 1..Len(requests) : i < j => ~SamePair(requests[i], requests[j])

\* a second send for a pair was refused while an accepted request and a pending
\* request of two different pairs are stored
C1Witness ==
  /\ resp = RequestExists
  /\ Len(requests) = 2
  /\ requests[1].status = "accepted"
  /\ requests[2].status = "pending"

\* C2: a sendFriendRequest that has passed its "no existing request" pre-check
\* creates its document and answers 201 whatever was created in the meantime
\* (or dies without writing), so two racing sends for one pair both succeed.
RacingSendsBothCreate ==
  [][\A p \in Procs :
       (pc[p] = "send_create" /\ pc'[p] # "send_create") =>
         \/ /\ requests' = Append(requests, [sender |-> loc[p].me,
                                             recipient |-> loc[p].target,
                                             status |-> "pending"])
            /\ resp' = Response("sendFriendRequest", 201, "")
         \/ UNCHANGED <<requests, resp, users>>]_vars

\* two documents of one unordered pair are stored and the last send got 201
C2Witness ==
  /\ Len(requests) = 2
  /\ SamePair(requests[1], requests[2])
  /\ resp = Response("sendFriendRequest", 201, "")

SendMustFail(myId, recipientId) ==
  \/ myId = recipientId
  \/ recipientId \notin 1..Len(users)
  \/ includes(users[recipientId].friends, myId)
  \/ existingRequest(requests, myId, recipientId)

\* C3: sendFriendRequest to oneself, to a missing user, to a user who has the
\* sender as a friend, or across an existing request of either direction and
\* status, answers 400/404 and leaves users and requests unchanged; a send
\* that answers with an error never writes.
SendRejected ==
  [][/\ resp'.op = "sendFriendRequest" =>
        \A u \in UserIds, t \in TargetIds :
          (sendFriendRequest(u, t) /\ SendMustFail(u, t)) =>
             /\ resp'.op = "sendFriendRequest"
             /\ resp'.status \in {400, 404}
             /\ UNCHANGED <<users, requests>>
     /\ (resp'.op = "sendFriendRequest" /\ resp'.status # 201) =>
          UNCHANGED <<users, requests>>
     /\ Len(requests') > Len(requests) =>
          ~SendMustFail(requests'[Len(requests')].sender,
                        requests'[Len(requests')].recipient)]_vars

\* a send was refused after the request between the two had been accepted
C3Witness ==
  /\ resp.op = "sendFriendRequest"
  /\ resp.status = 400
  /\ Len(requests) = 1
  /\ requests[1].status = "accepted"
  /\ Friends(requests[1].recipient, requests[1].sender)

\* C4: acceptFriendRequest by anyone but the recipient of the request answers
\* 403 and leaves the request and every friends array unchanged.
AcceptByOthersForbidden ==
  [][/\ resp'.op = "acceptFriendRequest" =>
        \A u \in UserIds, r \in 1..Len(requests) :
          (acceptFriendRequest(u, r) /\ requests[r].recipient # u) =>
             /\ resp' = NotAuthorized
             /\ UNCHANGED <<users, requests>>
     /\ resp' = NotAuthorized => UNCHANGED <<users, requests>>]_vars

\* an accept was refused with 403 and the request is still pending, nobody befriended
C4Witness ==
  /\ resp = NotAuthorized
  /\ Len(requests) >= 1
  /\ \A i \in 1..Len(requests) : requests[i].status = "pending"
  /\ \A u \in 1..Len(users) : users[u].friends = <<>>

AcceptIsAtomic ==
  \A i \in 1..Len(requests) :
    (\/ requests[i].status = "accepted"
     \/ Friends(requests[i].sender, requests[i].recipient)
     \/ Friends(requests[i].recipient, requests[i].sender))
    => (/\ Friends(requests[i].sender, requests[i].recipient)
        /\ Friends(requests[i].recipient, requests[i].sender))

\* C6 as amended: acceptFriendRequest makes three separate writes, in this
\* order: the status, the recipient into the sender's friends array, the sender
\* into the recipient's; each write changes nothing else, the 200 is sent after
\* the third, and a handler that dies in between rolls nothing back.
AcceptWritesInSequence ==
  [][\A p \in Procs :
       LET r == requests[loc[p].target] IN
       /\ (pc[p] = "accept_save" /\ pc'[p] = "accept_addToSender") =>
             /\ requests' = [requests EXCEPT ![loc[p].target].status = "accepted"]
             /\ UNCHANGED <<users, resp>>
       /\ (pc[p] = "accept_addToSender" /\ pc'[p] = "accept_addToRecipient") =>
             /\ users' = [users EXCEPT ![r.sender].friends =
                            IF includes(@, r.recipient) THEN @ ELSE Append(@, r.recipient)]
             /\ UNCHANGED <<requests, resp>>
       /\ (pc[p] = "accept_addToRecipient" /\ pc'[p] = "idle") =>
             \/ /\ users' = [users EXCEPT ![r.recipient].friends =
                               IF includes(@, r.sender) THEN @ ELSE Append(@, r.sender)]
                /\ resp' = Response("acceptFriendRequest", 200, "")
                /\ UNCHANGED requests
             \/ UNCHANGED <<users, requests, resp>>
       /\ (pc[p] \in {"accept_save", "accept_addToSender"} /\ pc'[p] = "idle") =>
             UNCHANGED <<users, requests, resp>>]_vars

\* no handler is running, the request is accepted and the recipient is in the
\* sender's friends array, but the sender is not in the recipient's
C6Witness ==
  /\ \A p \in Procs : pc[p] = "idle"
  /\ Len(requests) = 1
  /\ requests[1].status = "accepted"
  /\ Friends(requests[1].sender, requests[1].recipient)
  /\ ~Friends(requests[1].recipient, requests[1].sender)

\* C7: no step removes a FriendRequest document, changes its sender or its
\* recipient, or takes its status from accepted back to pending.
RequestsOnlyAdvance ==
  [][/\ Len(requests') >= Len(requests)
     /\ \A i \in 1..Len(requests) :
          /\ requests'[i].sender = requests[i].sender
          /\ requests'[i].recipient = requests[i].recipient
          /\ requests'[i].status \in {"pending", "accepted"}
          /\ requests[i].status = "accepted" => requests'[i].status = "accepted"]_vars

\* an accepted request is still stored, accepted, after a later send was refused
C7Witness ==
  /\ Len(requests) >= 1
  /\ requests[1].status = "accepted"
  /\ resp.op = "sendFriendRequest"
  /\ resp.status = 400

InvalidCredentials == Response("login", 401, "Invalid email or password")

\* the login fails: no user has the normalized address, or the password is wrong
LoginMismatch(email, password) ==
  \/ findOneByEmail(normalizeEmail(email)) = 0
  \/ ~matchPassword(users[findOneByEmail(normalizeEmail(email))], password)

\* C8 as claimed: for any email and any non-empty password, a login that finds
\* no user and a login with a wrong password both answer 401 with one message.
LoginFailuresUniform ==
  \A e \in RawEmails, p \in Passwords \ {""} :
    LoginMismatch(e, p) => loginResponse(e, p) = InvalidCredentials

\* C8 as amended: for any non-empty email and any non-empty password, a login
\* that finds no user and a login with a wrong password answer with the same
\* status 401 and the same message.
LoginFailuresIndistinguishable ==
  \A e \in RawEmails \ {EmptyStr}, p \in Passwords \ {""} :
    LoginMismatch(e, p) => loginResponse(e, p) = InvalidCredentials

\* a login was refused with 401 where one address is registered and another is not
C8Witness ==
  /\ resp = InvalidCredentials
  /\ findOneByEmail(EmailA) # 0
  /\ findOneByEmail(EmailB) = 0

\* C9: while no reset of its password has succeeded, a login with an address
\* that normalizes to the one a user signed up with succeeds and sets the
\* cookie when the password is the one of the signup, and answers 401 otherwise.
RegisteredLoginWorks ==
  [][resp'.op = "login" =>
     \A u \in 1..Len(registered), e \in RawEmails \ {EmptyStr}, p \in Passwords \ {""} :
       (/\ ~registered[u].reset
        /\ normalizeEmail(e) = registered[u].email
        /\ login(e, p)) =>
          IF p = registered[u].password
          THEN resp' = Response("login", 200, "") /\ u \in cookies'
          ELSE resp' = InvalidCredentials]_vars

\* C10: no stored password field equals a password a client has sent.
NoPlaintextPasswordStored ==
  \A u \in 1..Len(users), p \in Passwords : users[u].password # PlainText(p)

\* C11: a stored password changes only in a step in which resetPassword
\* succeeds for that user; the save of forgotPassword, the friends updates of
\* acceptFriendRequest and every other write leave it as it was.
PasswordChangesOnlyOnReset ==
  [][\A u \in 1..Len(users) :
       users'[u].password # users[u].password =>
         /\ resp' = Response("resetPassword", 200, "")
         /\ users[u].passwordResetToken # NoToken
         /\ users'[u].passwordResetToken = NoToken]_vars

ValidNewPasswords == {p \in NewPasswords : Len(p) >= MinPasswordLength}

\* the token was handed out ResetTTL minutes ago or longer, or a reset with it succeeded
Spent(t) == tokenLog[t].consumed \/ now >= tokenLog[t].at + ResetTTL

\* C12: a resetPassword with a token that forgotPassword handed out ten
\* minutes ago or longer, or with which a reset has already succeeded, answers
\* 400 and changes no user.
TokenOnceWithinTTL ==
  [][resp'.op = "resetPassword" =>
     \A t \in 1..Len(tokenLog), p \in ValidNewPasswords, s \in Salts :
       (resetPassword(t, p, s) /\ Spent(t)) =>
          /\ resp' = Response("resetPassword", 400, "Invalid or expired password reset token")
          /\ UNCHANGED users]_vars

\* C13: once forgotPassword has handed out a later token for the same user, a
\* resetPassword with the earlier token answers 400 and changes no user,
\* although the earlier token has not expired.
OnlyLatestTokenLive ==
  [][resp'.op = "resetPassword" =>
     \A t1, t2 \in 1..Len(tokenLog), p \in ValidNewPasswords, s \in Salts :
       (/\ t1 < t2
        /\ tokenLog[t1].user = tokenLog[t2].user
        /\ resetPassword(t1, p, s)) =>
          /\ resp' = Response("resetPassword", 400, "Invalid or expired password reset token")
          /\ UNCHANGED users]_vars

\* the step is a resetPassword that answers 200 (every other step that leaves
\* this response in place changes no user)
ResetSucceeds == resp' = Response("resetPassword", 200, "") /\ users' # users

\* the user a successful resetPassword step has written, with the password sent
ResetWrote(u, p) ==
  /\ users[u].passwordResetToken # NoToken
  /\ users'[u].password.alg = "bcrypt"
  /\ users'[u].password.text = p
  /\ users'[u].passwordResetToken = NoToken
  /\ users'[u].passwordResetExpires = NoExpiry
  /\ \A v \in 1..Len(users) : v # u => users'[v] = users[v]
  /\ Len(users') = Len(users)

\* C14 as claimed: a successful resetPassword replaces the hash and clears both
\* reset fields in the one step, and right after it a login with the new
\* password succeeds and a login with the password stored before fails.
ResetReplacesAndOldFails ==
  [][ResetSucceeds =>
     \E u \in 1..Len(users), p \in NewPasswords :
     \E e \in {users[u].email}, old \in {users[u].password.text} :
       /\ ResetWrote(u, p)
       /\ loginResponse(e, p)' = Response("login", 200, "")
       /\ loginResponse(e, old)' = InvalidCredentials]_vars

\* C14 as amended: a successful resetPassword replaces the hash and clears both
\* reset fields in the one step, and right after it a login with the new
\* password succeeds and a login with the password stored before, where that
\* differs from the new one, fails.
ResetReplacesAndClears ==
  [][ResetSucceeds =>
     \E u \in 1..Len(users), p \in NewPasswords :
     \E e \in {users[u].email}, old \in {users[u].password.text} :
       /\ ResetWrote(u, p)
       /\ loginResponse(e, p)' = Response("login", 200, "")
       /\ old # p => loginResponse(e, old)' = InvalidCredentials]_vars

\* a second reset has succeeded for one user, both with the same new password
C14Witness ==
  /\ resp = Response("resetPassword", 200, "")
  /\ Len(tokenLog) = 2
  /\ tokenLog[1].consumed /\ tokenLog[2].consumed
  /\ tokenLog[1].user = tokenLog[2].user
  /\ users[tokenLog[1].user].password.text = "hunter22"
  /\ users[tokenLog[1].user].passwordResetToken = NoToken

\* the cookie is missing, fails verification, or names a user that is not stored
SessionInvalid(token) ==
  \/ token = NoCookie
  \/ token.signedBy # "server"
  \/ token.exp <= now
  \/ token.userId \notin 1..Len(users)

\* C15: protectRoute answers 401 when the cookie is missing, when the token is
\* tampered with or expired, and when the token names a user that is not stored.
SessionFailuresAre401 ==
  [][\A t \in SessionTokens :
       (me(t) /\ SessionInvalid(t)) =>
          resp'.op = "protectRoute" /\ resp'.status = 401]_vars

\* C16: GET /chat/token never answers 200 without a token, and answers 500
\* when createToken has thrown.
StreamTokenFailureIs500 ==
  resp.op = "getStreamToken" =>
    /\ resp.status = 200 => resp.token # Undefined
    /\ resp.token = Undefined => resp.status = 500

\* the signup request passes every check of the handler
SignupValid(email, password, fullName) ==
  /\ email # EmptyStr /\ password # "" /\ fullName # ""
  /\ Len(password) >= MinPasswordLength
  /\ emailRegexTest(trim(toLowerCase(email)))
  /\ \A u \in 1..Len(users) : users[u].email # trim(toLowerCase(email))

\* C17: a signup that passes the checks stores the user, sets the cookie and
\* answers 201 whether the Stream upsert went through or failed.
StreamFailureDoesNotBlockSignup ==
  [][resp'.op = "signup" =>
     \A rq \in SignupRequests, s \in Salts, up \in BOOLEAN :
       (signup(rq[1], rq[2], rq[3], s, up) /\ SignupValid(rq[1], rq[2], rq[3])) =>
          /\ resp' = Response("signup", 201, "")
          /\ Len(users') = Len(users) + 1
          /\ users'[Len(users')].email = trim(toLowerCase(rq[1]))
          /\ Len(users') \in cookies']_vars

\* the last signup answered 201 and set the cookie for a user Stream does not have
C17Witness ==
  /\ resp = Response("signup", 201, "")
  /\ Len(users) >= 1
  /\ Len(users) \notin streamUsers
  /\ Len(users) \in cookies

\* no two stored users have the same lowercased, trimmed email
NoTwoUsersShareEmail ==
  \A u, v \in 1..Len(users) :
    u # v => trim(toLowerCase(users[u].email)) # trim(toLowerCase(users[v].email))

\* C18: a signup with a missing field, a password shorter than 6, an email
\* that fails the pattern, or the normalized email of a stored user answers 400
\* and stores nothing; with signups handled one at a time no two stored users
\* ever have the same normalized email.
SignupRejectsInvalid ==
  /\ []NoTwoUsersShareEmail
  /\ [][resp'.op = "signup" =>
        \A rq \in SignupRequests, s \in Salts, up \in BOOLEAN :
          (signup(rq[1], rq[2], rq[3], s, up) /\ ~SignupValid(rq[1], rq[2], rq[3])) =>
             /\ resp'.status = 400
             /\ UNCHANGED <<users, cookies>>]_vars

\* two users are stored and a signup with the address of one of them, written
\* with capitals and spaces or not, was refused
C18Witness ==
  /\ Len(users) = 2
  /\ resp = Response("signup", 400, "Email already exists, please use a different one")

\* C19: the request a successful sendFriendRequest has created is in the
\* sender's outgoing pending list and in the recipient's incoming pending list
\* and in no accepted list; after a successful acceptFriendRequest it is in
\* neither pending list and in the sender's accepted list.
RequestListsFollowState ==
  [][/\ resp'.op = "sendFriendRequest" =>
        \A u \in UserIds, t \in TargetIds :
          (sendFriendRequest(u, t) /\ resp'.status = 201) =>
             /\ Len(requests') \in getOutgoingFriendReqs(requests', u)
             /\ Len(requests') \in getFriendRequests(requests', t).incomingReqs
             /\ Len(requests') \notin getFriendRequests(requests', u).acceptedReqs
     /\ resp'.op = "acceptFriendRequest" =>
        \A u \in UserIds, r \in 1..Len(requests) :
          (acceptFriendRequest(u, r) /\ resp'.status = 200) =>
             /\ r \notin getOutgoingFriendReqs(requests', requests[r].sender)
             /\ r \notin getFriendRequests(requests', u).incomingReqs
             /\ r \in getFriendRequests(requests', requests[r].sender).acceptedReqs]_vars

\* the first request was accepted and is on its sender's accepted list only,
\* the second is pending and on its sender's outgoing and its recipient's incoming list
C19Witness ==
  /\ resp = Response("acceptFriendRequest", 200, "")
  /\ Len(requests) = 2
  /\ getFriendRequests(requests, requests[1].sender).acceptedReqs = {1}
  /\ 1 \notin getOutgoingFriendReqs(requests, requests[1].sender)
  /\ 1 \notin getFriendRequests(requests, requests[1].recipient).incomingReqs
  /\ 2 \in getOutgoingFriendReqs(requests, requests[2].sender)
  /\ 2 \in getFriendRequests(requests, requests[2].recipient).incomingReqs

\* C20: for every stored user u and every id v, v is recommended to u exactly
\* when v is a stored user other than u, is not in u's friends array and has
\* isOnboarded set; u and the friends of u are never recommended to u.
RecommendationsExact ==
  \A u \in 1..Len(users) :
    /\ u \notin getRecommendedUsers(users, u)
    /\ \A v \in TargetIds :
         /\ Friends(u, v) => v \notin getRecommendedUsers(users, u)
         /\ v \in getRecommendedUsers(users, u) <=>
              (/\ v \in 1..Len(users) /\ v # u
               /\ ~Friends(u, v)
               /\ users[v].isOnboarded)

\* user 1 has an onboarded friend, and the one user recommended to 1 is another
\* onboarded user
C20Witness ==
  /\ Len(users) = 3
  /\ \E v \in 2..3 : Friends(1, v) /\ users[v].isOnboarded
                      /\ getRecommendedUsers(users, 1) = {5 - v}

\* C21: in every state between API operations, a is in b's friends array exactly
\* when b is in a's, and no friends array holds the same id twice.
FriendSetsMutualAndDeduplicated ==
  \A a \in 1..Len(users) :
    /\ \A b \in 1..Len(users) : Friends(a, b) <=> Friends(b, a)
    /\ \A i, j \in 1..Len(users[a].friends) :
         users[a].friends[i] = users[a].friends[j] => i = j

\* C29: whenever a is in b's friends array, a and b are different users and
\* an accepted FriendRequest between a and b is stored.
FriendsOnlyByAcceptedRequest ==
  \A b \in 1..Len(users) : \A a \in TargetIds :
    Friends(b, a) =>
      /\ a # b
      /\ \E r \in 1..Len(requests) :
           /\ {requests[r].sender, requests[r].recipient} = {a, b}
           /\ requests[r].status = "accepted"

\* C23: an onboarding answered with 200 sets isOnboarded and leaves the acting
\* user's email, password, friends array and reset-token fields, and every
\* other user, as they were, whatever keys the body carries.
OnboardingChangesOnlyProfile ==
  [][resp'.op = "onboard" =>
       \A u \in UserIds, b \in OnboardBodies :
         (onboard(u, b) /\ resp'.status = 200) =>
            /\ users'[u].isOnboarded
            /\ \A f \in {"email", "password", "friends",
                          "passwordResetToken", "passwordResetExpires"} :
                 users'[u][f] = users[u][f]
            /\ \A v \in 1..Len(users) : v # u => users'[v] = users[v]]_vars

\* the five fields the handler requires
RequiredFields == {"fullName", "bio", "nativeLanguage", "learningLanguage", "location"}

\* C24: an onboarding with one of the five fields missing answers 400 and leaves
\* the users as they were; with all five present it sets isOnboarded; and no
\* step of any operation takes isOnboarded from TRUE to FALSE.
OnboardingSetsFlagForGood ==
  [][/\ \A u \in 1..Len(users) : users[u].isOnboarded => users'[u].isOnboarded
     /\ resp'.op = "onboard" =>
          \A u \in UserIds, b \in OnboardBodies :
            onboard(u, b) =>
              /\ (\E f \in RequiredFields : Missing(b, f)) =>
                    resp'.status = 400 /\ users' = users
              /\ (\A f \in RequiredFields : ~Missing(b, f)) =>
                    users'[u].isOnboarded]_vars

\* C30: the user objects in the responses of signup (201), login (200) and
\* /auth/me (200) carry no password field.
NoResponseCarriesPassword ==
  [][/\ resp'.op = "signup" /\ resp'.status = 201 /\ Len(users') > Len(users) =>
          "password" \notin DOMAIN signupBody(users'[Len(users')]).user
     /\ resp'.op = "login" =>
          \A e \in RawEmails, p \in Passwords :
            (login(e, p) /\ resp'.status = 200) =>
               "password" \notin DOMAIN loginBody(users[findOneByEmail(normalizeEmail(e))]).user
     /\ resp'.op = "me" =>
          \A t \in SessionTokens :
            (me(t) /\ resp'.status = 200) => "password" \notin DOMAIN meBody(t).user]_vars

\* the handlers behind protectRoute, by the op of their responses
HandlerOps ==
  {"onboard", "me", "sendFriendRequest", "acceptFriendRequest", "getStreamToken"}
    \cup UserListHandlers

\* the middleware answered; no handler ran, no user and no request changed
Refused == resp'.op = "protectRoute" /\ users' = users /\ requests' = requests

\* the step is a request to a protected route with cookie t whose handler acts
\* as the user t names: only that user's document is updated by onboarding, a
\* created request has that user as sender, an accepted one as recipient
ActsAs(t) ==
  LET a == t.userId IN
  \/ \E b \in RouteBodies :
       /\ postOnboarding(t, b) /\ requests' = requests
       /\ \A v \in 1..Len(users) : v # a => users'[v] = users[v]
  \/ \E id \in TargetIds :
       /\ postFriendRequest(t, id) /\ users' = users
       /\ requests' # requests =>
            requests' = Append(requests, [sender |-> a, recipient |-> id, status |-> "pending"])
  \/ \E r \in RequestIds :
       /\ putFriendRequestAccept(t, r)
       /\ (requests' # requests \/ users' # users) =>
            r \in 1..Len(requests) /\ requests[r].recipient = a
  \/ \E f \in BOOLEAN : getChatToken(t, f) /\ users' = users /\ requests' = requests
  \/ \E h \in UserListHandlers : getUsersRoute(t, h) /\ users' = users /\ requests' = requests
  \/ me(t) /\ users' = users /\ requests' = requests

\* C22: a request to a protected route whose cookie is missing, not signed by
\* the server, expired or names no stored user is answered by the middleware
\* and changes nothing; and every step in which a protected handler answers, a
\* FriendRequest changes or a stored user changes is a request whose cookie
\* verifies and names a stored user, with the handler acting as that user.
HandlersRunBehindSession ==
  [][/\ ~Refused =>
          \A t \in RouteTokens : SessionInvalid(t) =>
            /\ \A b \in RouteBodies : postOnboarding(t, b) => Refused
            /\ \A id \in TargetIds : postFriendRequest(t, id) => Refused
            /\ \A r \in RequestIds : putFriendRequestAccept(t, r) => Refused
            /\ \A f \in BOOLEAN : getChatToken(t, f) => Refused
            /\ \A h \in UserListHandlers : getUsersRoute(t, h) => Refused
            /\ me(t) => Refused
     /\ (/\ now' = now /\ Len(users') = Len(users)
         /\ resp'.op \in HandlerOps \/ requests' # requests \/ users' # users) =>
          \E t \in RouteTokens : ~SessionInvalid(t) /\ ActsAs(t)]_vars

\* after the short-lived cookies have expired, a request sent by one stored user
\* was accepted by the other, and both are in each other's friends array
C22Witness ==
  /\ now >= TickMinutes
  /\ resp = Response("acceptFriendRequest", 200, "")
  /\ \E r \in 1..Len(requests) :
       /\ requests[r].status = "accepted"
       /\ Friends(requests[r].sender, requests[r].recipient)
       /\ Friends(requests[r].recipient, requests[r].sender)

\* C25: the home page and the call page are rendered only for an authenticated,
\* onboarded user; the home and call routes redirect an unauthenticated
\* visitor to /login and an authenticated user who is not onboarded to
\* /onboarding; /signup redirects an authenticated user away.
PagesBehindAuth ==
  /\ [](App(path, authUser).show \in {"HomePage", "CallPage"} =>
          authUser.authUser # Undefined /\ authUser.authUser.isOnboarded)
  /\ [][Redirect =>
          /\ path \in {"/", "/call/:id"} /\ authUser.authUser = Undefined => path' = "/login"
          /\ path \in {"/", "/call/:id"} /\ authUser.authUser # Undefined =>
               ~authUser.authUser.isOnboarded /\ path' = "/onboarding"
          /\ path = "/signup" => authUser.authUser # Undefined /\ path' # "/signup"]_vars
  /\ [](~authUser.isLoading =>
          /\ path \in {"/", "/call/:id"} /\ authUser.authUser = Undefined =>
               App(path, authUser) = NavigateTo("/login")
          /\ (/\ path \in {"/", "/call/:id"} /\ authUser.authUser # Undefined
              /\ ~authUser.authUser.isOnboarded) =>
               App(path, authUser) = NavigateTo("/onboarding")
          /\ path = "/signup" /\ authUser.authUser # Undefined =>
               App(path, authUser).navigate \in {"/", "/onboarding"})

\* a signed-in user who has not onboarded was sent on to /onboarding
C25Witness ==
  /\ path = "/onboarding"
  /\ authUser.authUser # Undefined
  /\ ~authUser.authUser.isOnboarded

\* C27: once the outgoing pending requests have been fetched, the button of a
\* recommended user is marked as sent exactly when the fetched list holds a
\* request to that user, also when the fetched list is empty.
SentMarkFollowsFetchedList ==
  homePage.outgoingFriendReqs # Undefined =>
    \A v \in homePage.recommendedUsers :
      hasRequestBeenSent(homePage, v) <=> v \in homePage.outgoingFriendReqs.recipients

\* C26: a click on "Try Again" in the "Email Sent!" view brings the email form
\* back, from which a reset request can be submitted again.
TryAgainShowsForm ==
  [][TryAgain => ForgotFormShown']_vars

\* the password in the inputs of the reset page passes the checks of the page
ResetInputValid(page) ==
  page.newPassword = page.confirmPassword /\ Len(page.newPassword) >= 6

\* C28: the reset page starts a request only from inputs where the new password
\* equals the confirmation and has at least 6 characters, and every request
\* the server receives from it carries such a password; a reset answered
\* with success schedules the navigation that then leads to /login, one answered
\* with a failure leaves the browser on the form.
ResetPageSendsOnlyValid ==
  /\ [][/\ (resetPage'.status = "pending" /\ resetPage.status # "pending") =>
             /\ ResetInputValid(resetPage)
             /\ resetPage'.variables = [token |-> resetPage.token,
                                        newPassword |-> resetPage.newPassword]
        /\ resp'.op = "resetPassword" =>
             \A s \in Salts :
               ResetSettle(s) =>
                 /\ Len(resetPage.variables.newPassword) >= 6
                 /\ resp'.status = 200 =>
                      resetPage'.status = "success" /\ resetPage'.navigateTimer
                 /\ resp'.status # 200 =>
                      /\ path' = ResetPath /\ ~resetPage'.navigateTimer
                      /\ ResetFormShown'
        /\ NavigateTimerFires => path' = "/login"]_vars
  /\ [](resetPage.status = "error" => ResetFormShown /\ ~resetPage.navigateTimer)
  /\ [](resetPage.status = "success" => path = "/login" \/ resetPage.navigateTimer)

\* the server changed the password to the one typed twice and the browser has
\* gone on to /login
C28Witness ==
  /\ path = "/login"
  /\ resetPage.status = "success"
  /\ resp = Response("resetPassword", 200, "")
  /\ \E u \in 1..Len(users) : users[u].password.text = "hunter22"
====
